---- MODULE Spec2Model ----
(***************************************************************************)
(* State-machine model of inventory.py: the catalog file inventory.json,   *)
(* the audit log staff_log.txt, and one or two runs of main(), each with    *)
(* its Admin and Staff objects, its position in main() and its terminal.    *)
(*                                                                         *)
(* A string is a sequence of one-character strings, so that str.strip(),    *)
(* int(), float() and the f-string of the audit line are computed and not   *)
(* assumed.  A Python float is modelled as a decimal m * 10^-e, as NaN or   *)
(* as an infinity; the input alphabet holds no exponent notation.           *)
(***************************************************************************)
EXTENDS Integers, Sequences, FiniteSets, TLC

\* ------------------------------------------------------------------ bounds
\* Most lines the audit log may hold (caps Staff.update_stock's success path).
MaxLog == 2
\* The readings datetime.now() may give (1..MaxTime).
MaxTime == 1
\* Most lines the audit log may hold when two runs share it.
MaxConcLog == 1

\* ----------------------------------------------------------------- strings
WS == {" ", "\t"}
Digits == {"0", "1", "2", "3", "4", "5", "6", "7", "8", "9"}

RECURSIVE LStrip(_)
LStrip(s) == IF s # <<>> /\ Head(s) \in WS THEN LStrip(Tail(s)) ELSE s

RECURSIVE RStrip(_)
RStrip(s) ==
    IF s # <<>> /\ s[Len(s)] \in WS THEN RStrip(SubSeq(s, 1, Len(s) - 1)) ELSE s

\* str.strip()
Strip(s) == RStrip(LStrip(s))

DigitVal(c) ==
    CASE c = "0" -> 0 [] c = "1" -> 1 [] c = "2" -> 2 [] c = "3" -> 3
      [] c = "4" -> 4 [] c = "5" -> 5 [] c = "6" -> 6 [] c = "7" -> 7
      [] c = "8" -> 8 [] c = "9" -> 9

DigitChar(d) ==
    CASE d = 0 -> "0" [] d = 1 -> "1" [] d = 2 -> "2" [] d = 3 -> "3"
      [] d = 4 -> "4" [] d = 5 -> "5" [] d = 6 -> "6" [] d = 7 -> "7"
      [] d = 8 -> "8" [] d = 9 -> "9"

AllDigits(s) == \A i \in 1..Len(s) : s[i] \in Digits

RECURSIVE DigitsVal(_)
DigitsVal(s) ==
    IF s = <<>> THEN 0
    ELSE DigitsVal(SubSeq(s, 1, Len(s) - 1)) * 10 + DigitVal(s[Len(s)])

HasSign(t) == t # <<>> /\ Head(t) \in {"+", "-"}
Unsigned(t) == IF HasSign(t) THEN Tail(t) ELSE t
SignOf(t) == IF t # <<>> /\ Head(t) = "-" THEN -1 ELSE 1

\* int(text): surrounding whitespace stripped, an optional sign, then one or
\* more decimal digits; anything else raises ValueError (ok = FALSE).
IntParse(s) ==
    LET t == Strip(s)
        b == Unsigned(t)
    IN  IF b # <<>> /\ AllDigits(b)
        THEN [ok |-> TRUE, val |-> SignOf(t) * DigitsVal(b)]
        ELSE [ok |-> FALSE, val |-> 0]

RECURSIVE NatToStr(_)
NatToStr(n) ==
    IF n < 10 THEN <<DigitChar(n)>>
    ELSE NatToStr(n \div 10) \o <<DigitChar(n % 10)>>

\* str(int), as the f-string of the audit line formats the quantity
IntToStr(n) == IF n < 0 THEN <<"-">> \o NatToStr(-n) ELSE NatToStr(n)

\* ------------------------------------------------------------------ floats
NaN == [k |-> "nan", m |-> 0, e |-> 0]
Inf(sign) == [k |-> "inf", m |-> sign, e |-> 0]

RECURSIVE Fin(_, _)
\* the finite value m * 10^-e, in lowest terms
Fin(m, e) ==
    IF e > 0 /\ m % 10 = 0 THEN Fin(m \div 10, e - 1)
    ELSE [k |-> "fin", m |-> m, e |-> e]

RECURSIVE Pow10(_)
Pow10(n) == IF n = 0 THEN 1 ELSE 10 * Pow10(n - 1)

DotAt(b) ==
    IF \E i \in 1..Len(b) : b[i] = "."
    THEN CHOOSE i \in 1..Len(b) :
            b[i] = "." /\ \A j \in 1..(i - 1) : b[j] # "."
    ELSE 0

\* float(text): surrounding whitespace stripped, an optional sign, then
\* "nan", "inf" or decimal digits with at most one point and at least one
\* digit; anything else raises ValueError (ok = FALSE).
FloatParse(s) ==
    LET t == Strip(s)
        b == Unsigned(t)
        d == DotAt(b)
        ip == IF d = 0 THEN b ELSE SubSeq(b, 1, d - 1)
        fp == IF d = 0 THEN <<>> ELSE SubSeq(b, d + 1, Len(b))
    IN  IF b = <<"n", "a", "n">> THEN [ok |-> TRUE, val |-> NaN]
        ELSE IF b = <<"i", "n", "f">> THEN [ok |-> TRUE, val |-> Inf(SignOf(t))]
        ELSE IF AllDigits(ip) /\ AllDigits(fp) /\ Len(ip) + Len(fp) > 0
        THEN [ok |-> TRUE,
              val |-> Fin(SignOf(t) * (DigitsVal(ip) * Pow10(Len(fp)) + DigitsVal(fp)),
                          Len(fp))]
        ELSE [ok |-> FALSE, val |-> NaN]

\* x < 0 for a float x: False for NaN
FloatNeg(x) == x.k # "nan" /\ x.m < 0

\* int * float
IntTimesFloat(q, x) ==
    CASE x.k = "nan" -> NaN
      [] x.k = "inf" -> IF q = 0 THEN NaN ELSE Inf(IF q < 0 THEN -x.m ELSE x.m)
      [] OTHER -> Fin(q * x.m, x.e)

\* float + float (total_value += value; the int 0 it starts from is Fin(0, 0))
FloatAdd(x, y) ==
    CASE x.k = "nan" \/ y.k = "nan" -> NaN
      [] x.k = "inf" /\ y.k = "inf" -> IF x.m = y.m THEN x ELSE NaN
      [] x.k = "inf" -> x
      [] y.k = "inf" -> y
      [] OTHER ->
            LET e == IF x.e > y.e THEN x.e ELSE y.e
            IN  Fin(x.m * Pow10(e - x.e) + y.m * Pow10(e - y.e), e)

\* ------------------------------------------------------------- dictionaries
\* A dict is the sequence of its items in insertion order, keys distinct.
EmptyDict == <<>>

Keys(d) == {d[i].pid : i \in 1..Len(d)}

\* pid in d
Has(d, pid) == pid \in Keys(d)

IndexOf(d, pid) == CHOOSE i \in 1..Len(d) : d[i].pid = pid

\* d[pid]
Get(d, pid) == d[IndexOf(d, pid)]

\* d[pid] = {...}: a new key goes last, an old key keeps its place
Put(d, pid, name, quantity, price) ==
    LET item == [pid |-> pid, name |-> name, quantity |-> quantity, price |-> price]
    IN  IF Has(d, pid) THEN [d EXCEPT ![IndexOf(d, pid)] = item]
        ELSE Append(d, item)

\* d[pid]["quantity"] = quantity
SetQuantity(d, pid, quantity) ==
    [d EXCEPT ![IndexOf(d, pid)].quantity = quantity]

\* Faulty variant of Del: drops the last item whatever the key.
Del_DropsLast(d, pid) == SubSeq(d, 1, Len(d) - 1)

\* del d[pid]
Del(d, pid) ==
    LET i == IndexOf(d, pid)
    IN  SubSeq(d, 1, i - 1) \o SubSeq(d, i + 1, Len(d))

\* --------------------------------------------------------------------- JSON
RECURSIVE PadZeros(_, _)
PadZeros(s, n) == IF Len(s) < n THEN PadZeros(<<"0">> \o s, n) ELSE s

Abs(n) == IF n < 0 THEN -n ELSE n

\* The token json.dump writes for a float: repr(x), or NaN, Infinity, -Infinity.
FloatRepr(x) ==
    CASE x.k = "nan" -> <<"N", "a", "N">>
      [] x.k = "inf" ->
            (IF x.m < 0 THEN <<"-">> ELSE <<>>)
                \o <<"I", "n", "f", "i", "n", "i", "t", "y">>
      [] OTHER ->
            (IF x.m < 0 THEN <<"-">> ELSE <<>>)
                \o NatToStr(Abs(x.m) \div Pow10(x.e)) \o <<".">>
                \o (IF x.e = 0 THEN <<"0">>
                    ELSE PadZeros(NatToStr(Abs(x.m) % Pow10(x.e)), x.e))

\* The float json.load reads from a number token.
FloatFromJson(tok) ==
    CASE tok = <<"N", "a", "N">> -> NaN
      [] tok = <<"I", "n", "f", "i", "n", "i", "t", "y">> -> Inf(1)
      [] tok = <<"-", "I", "n", "f", "i", "n", "i", "t", "y">> -> Inf(-1)
      [] OTHER -> FloatParse(tok).val

\* json.dump(inventory, file, indent=4): one member per key, in dict order,
\* each number written as its token.
JsonDump(d) ==
    [i \in 1..Len(d) |->
        [key |-> d[i].pid,
         name |-> d[i].name,
         quantity |-> IntToStr(d[i].quantity),
         price |-> FloatRepr(d[i].price)]]

\* json.load(file)
JsonLoad(text) ==
    [i \in 1..Len(text) |->
        [pid |-> text[i].key,
         name |-> text[i].name,
         quantity |-> IntParse(text[i].quantity).val,
         price |-> FloatFromJson(text[i].price)]]

NoFile == [exists |-> FALSE, text |-> <<>>]

\* Faulty variant of load_inventory: never reads the file.
load_inventory_NeverReads(f) == EmptyDict

\* load_inventory(), reading the file f
load_inventory(f) == IF f.exists THEN JsonLoad(f.text) ELSE EmptyDict

\* save_inventory(inventory): the file it leaves
save_inventory(inventory) == [exists |-> TRUE, text |-> JsonDump(inventory)]

\* log_staff_action(action) at time t: the file it leaves
log_staff_action(f, t, action) ==
    [exists |-> TRUE, text |-> Append(f.text, [time |-> t, action |-> action])]

\* ----------------------------------------------------------------- handlers
\* What a handler leaves: the object's inventory, whether it called
\* save_inventory, whether it called log_staff_action, the message it printed
\* last, and how many input() lines it read after the menu choice.
Result(inventory, save, log, msg, read) ==
    [inventory |-> inventory, save |-> save, log |-> log, msg |-> msg, read |-> read]

\* Faulty variant of add_product: stores the name as typed, unstripped.
add_product_RawName(inventory, pidIn, nameIn, qtyIn, priceIn) ==
    LET pid == Strip(pidIn)
        quantity == IntParse(qtyIn)
        price == FloatParse(priceIn)
    IN  IF pid = <<>>
        THEN Result(inventory, FALSE, FALSE, "Product ID cannot be empty!", 1)
        ELSE IF Has(inventory, pid)
        THEN Result(inventory, FALSE, FALSE, "Product ID already exists!", 1)
        ELSE IF ~quantity.ok
        THEN Result(inventory, FALSE, FALSE,
                    "Quantity must be integer and price must be number!", 3)
        ELSE IF ~price.ok
        THEN Result(inventory, FALSE, FALSE,
                    "Quantity must be integer and price must be number!", 4)
        ELSE IF quantity.val < 0 \/ FloatNeg(price.val)
        THEN Result(inventory, FALSE, FALSE,
                    "Quantity and Price cannot be negative!", 4)
        ELSE Result(Put(inventory, pid, nameIn, quantity.val, price.val),
                    TRUE, FALSE, "Product Added Successfully!", 4)

\* Admin.add_product
add_product(inventory, pidIn, nameIn, qtyIn, priceIn) ==
    LET pid == Strip(pidIn)
        name == Strip(nameIn)
        quantity == IntParse(qtyIn)
        price == FloatParse(priceIn)
    IN  IF pid = <<>>
        THEN Result(inventory, FALSE, FALSE, "Product ID cannot be empty!", 1)
        ELSE IF Has(inventory, pid)
        THEN Result(inventory, FALSE, FALSE, "Product ID already exists!", 1)
        ELSE IF ~quantity.ok
        THEN Result(inventory, FALSE, FALSE,
                    "Quantity must be integer and price must be number!", 3)
        ELSE IF ~price.ok
        THEN Result(inventory, FALSE, FALSE,
                    "Quantity must be integer and price must be number!", 4)
        ELSE IF quantity.val < 0 \/ FloatNeg(price.val)
        THEN Result(inventory, FALSE, FALSE,
                    "Quantity and Price cannot be negative!", 4)
        ELSE Result(Put(inventory, pid, name, quantity.val, price.val),
                    TRUE, FALSE, "Product Added Successfully!", 4)

\* Faulty variant of delete_product: the save_inventory call is missing.
delete_product_NoSave(inventory, pidIn) ==
    LET pid == Strip(pidIn)
    IN  IF ~Has(inventory, pid)
        THEN Result(inventory, FALSE, FALSE, "Product ID not found!", 1)
        ELSE Result(Del(inventory, pid), FALSE, FALSE,
                    "Product Deleted Successfully!", 1)

\* Admin.delete_product
delete_product(inventory, pidIn) ==
    LET pid == Strip(pidIn)
    IN  IF ~Has(inventory, pid)
        THEN Result(inventory, FALSE, FALSE, "Product ID not found!", 1)
        ELSE Result(Del(inventory, pid), TRUE, FALSE,
                    "Product Deleted Successfully!", 1)

\* Faulty variant of admin_update_stock: the quantity < 0 test is missing.
admin_update_stock_NoNegativeTest(inventory, pidIn, qtyIn) ==
    LET pid == Strip(pidIn)
        quantity == IntParse(qtyIn)
    IN  IF ~Has(inventory, pid)
        THEN Result(inventory, FALSE, FALSE, "Product ID not found!", 1)
        ELSE IF ~quantity.ok
        THEN Result(inventory, FALSE, FALSE, "Quantity must be a valid number!", 2)
        ELSE Result(SetQuantity(inventory, pid, quantity.val), TRUE, FALSE,
                    "Stock Updated!", 2)

\* Admin.update_stock
admin_update_stock(inventory, pidIn, qtyIn) ==
    LET pid == Strip(pidIn)
        quantity == IntParse(qtyIn)
    IN  IF ~Has(inventory, pid)
        THEN Result(inventory, FALSE, FALSE, "Product ID not found!", 1)
        ELSE IF ~quantity.ok
        THEN Result(inventory, FALSE, FALSE, "Quantity must be a valid number!", 2)
        ELSE IF quantity.val < 0
        THEN Result(inventory, FALSE, FALSE, "Quantity cannot be negative!", 2)
        ELSE Result(SetQuantity(inventory, pid, quantity.val), TRUE, FALSE,
                    "Stock Updated!", 2)

\* Faulty variant of staff_update_stock: a rejected negative quantity is
\* logged too.
staff_update_stock_LogsRejected(inventory, pidIn, qtyIn) ==
    LET pid == Strip(pidIn)
        quantity == IntParse(qtyIn)
    IN  IF ~Has(inventory, pid)
        THEN Result(inventory, FALSE, FALSE, "Product ID not found!", 1)
        ELSE IF ~quantity.ok
        THEN Result(inventory, FALSE, FALSE, "Quantity must be a valid number!", 2)
        ELSE IF quantity.val < 0
        THEN Result(inventory, FALSE, TRUE, "Quantity cannot be negative!", 2)
        ELSE Result(SetQuantity(inventory, pid, quantity.val), TRUE, TRUE,
                    "Stock Updated!", 2)

\* Staff.update_stock
staff_update_stock(inventory, pidIn, qtyIn) ==
    LET pid == Strip(pidIn)
        quantity == IntParse(qtyIn)
    IN  IF ~Has(inventory, pid)
        THEN Result(inventory, FALSE, FALSE, "Product ID not found!", 1)
        ELSE IF ~quantity.ok
        THEN Result(inventory, FALSE, FALSE, "Quantity must be a valid number!", 2)
        ELSE IF quantity.val < 0
        THEN Result(inventory, FALSE, FALSE, "Quantity cannot be negative!", 2)
        ELSE Result(SetQuantity(inventory, pid, quantity.val), TRUE, TRUE,
                    "Stock Updated!", 2)

\* The text Staff.update_stock hands to log_staff_action
StaffAction(pid, quantity) ==
    <<"Staff updated stock of Product ID ">> \o pid \o <<" to ">> \o IntToStr(quantity)

\* Faulty variant of LowStock: <= for <.
LowStock_AtMost(quantity) == quantity <= 5

\* The low-stock test of Admin.view_products
LowStock(quantity) == quantity < 5

\* One product of Admin.view_products' listing
AdminRow(item) ==
    [pid |-> item.pid, name |-> item.name, quantity |-> item.quantity,
     price |-> item.price, value |-> IntTimesFloat(item.quantity, item.price),
     low |-> LowStock(item.quantity)]

RECURSIVE AdminViewLoop(_, _, _, _)
\* The for loop of Admin.view_products from item i on
AdminViewLoop(inventory, i, total, rows) ==
    IF i > Len(inventory) THEN [rows |-> rows, total |-> total]
    ELSE LET row == AdminRow(inventory[i])
         IN  AdminViewLoop(inventory, i + 1, FloatAdd(total, row.value),
                           Append(rows, row))

Printed(msg) == [msg |-> msg, rows |-> <<>>, total |-> Fin(0, 0)]

\* Admin.view_products: what it prints
admin_view_products(inventory) ==
    IF inventory = EmptyDict THEN Printed("Inventory is empty!")
    ELSE LET v == AdminViewLoop(inventory, 1, Fin(0, 0), <<>>)
         IN  [msg |-> "Total Inventory Value", rows |-> v.rows, total |-> v.total]

\* Staff.view_products: what it prints
staff_view_products(inventory) ==
    IF inventory = EmptyDict THEN Printed("Inventory is empty!")
    ELSE [msg |-> "--- Product List ---",
          rows |-> [i \in 1..Len(inventory) |->
                      [pid |-> inventory[i].pid, name |-> inventory[i].name,
                       quantity |-> inventory[i].quantity,
                       price |-> inventory[i].price]],
          total |-> Fin(0, 0)]

\* Admin.view_staff_logs: what it prints
view_staff_logs(f) ==
    IF f.exists
    THEN [msg |-> "--- Staff Activity Log ---", rows |-> f.text, total |-> Fin(0, 0)]
    ELSE Printed("No staff activity found.")

\* Faulty variant of authenticate: compares the username alone.
authenticate_UsernameOnly(user, username, password) == user.username = username

\* User.authenticate
authenticate(user, username, password) ==
    user.username = username /\ user.password = password

AdminUser == [username |-> <<"a", "d", "m", "i", "n">>, password |-> <<"1", "2", "3", "4">>]
StaffUser == [username |-> <<"s", "t", "a", "f", "f">>, password |-> <<"1", "1", "1", "1">>]

\* -------------------------------------------------------------------- state
VARIABLES
    catalogFile,  \* inventory.json: [exists, text]
    logFile,      \* staff_log.txt: [exists, text], text the lines written
    pc,           \* per run: where main() stands
    adminInv,     \* per run: admin.inventory
    staffInv,     \* per run: staff.inventory
    inp,          \* per run: the lines the last step read from the terminal
    out           \* per run: what the last step printed

vars == <<catalogFile, logFile, pc, adminInv, staffInv, inp, out>>

Runs == {1, 2}
Times == 1..MaxTime

P1 == <<"P", "1">>
P2 == <<"P", "2">>
Pen == <<"P", "e", "n">>

Item(pid, name, quantity, price) ==
    [pid |-> pid, name |-> name, quantity |-> quantity, price |-> price]

\* Catalogs a file may hold when a run starts, each one the program can write.
InitialCatalogs ==
    { EmptyDict,
      <<Item(P1, Pen, 5, Fin(25, 1))>>,
      <<Item(P2, Pen, 4, Fin(0, 0)), Item(P1, Pen, 5, Fin(25, 1))>> }

InitialCatalogFiles == {NoFile} \cup {save_inventory(c) : c \in InitialCatalogs}

\* What the terminal may type.
FullInputs ==
    [roles |-> {<<"1">>, <<"2">>, <<"3">>},
     usernames |-> {AdminUser.username, StaffUser.username},
     passwords |-> {AdminUser.password, StaffUser.password, <<"1", "2", "3">>},
     adminChoices |-> {<<"1">>, <<"2">>, <<"3">>, <<"4">>, <<"5">>, <<"6">>, <<"7">>},
     staffChoices |-> {<<"1">>, <<"2">>, <<"3">>, <<"4">>},
     pids |-> {<<" ">>, <<" ", "P", "1", " ">>, P2},
     names |-> {<<" ", "P", "e", "n">>, <<>>},
     quantities |-> {<<"5">>, <<" ", "4">>, <<"0">>, <<"-", "1">>, <<"x">>},
     prices |-> {<<"2", ".", "5">>, <<"0">>, <<"-", "1">>, <<"n", "a", "n">>, <<"a">>},
     times |-> Times,
     maxLog |-> MaxLog]

Init ==
    /\ catalogFile \in InitialCatalogFiles
    /\ logFile = NoFile
    /\ pc = [r \in Runs |-> "start"]
    /\ adminInv = [r \in Runs |-> EmptyDict]
    /\ staffInv = [r \in Runs |-> EmptyDict]
    /\ inp = [r \in Runs |-> <<>>]
    /\ out = [r \in Runs |-> Printed("")]

\* ------------------------------------------------------------------ actions
\* admin = Admin("admin", "1234")
NewAdmin(r) ==
    /\ pc[r] = "start"
    /\ adminInv' = [adminInv EXCEPT ![r] = load_inventory(catalogFile)]
    /\ pc' = [pc EXCEPT ![r] = "admin_built"]
    /\ UNCHANGED <<catalogFile, logFile, staffInv, inp, out>>

\* staff = Staff("staff", "1111")
NewStaff(r) ==
    /\ pc[r] = "admin_built"
    /\ staffInv' = [staffInv EXCEPT ![r] = load_inventory(catalogFile)]
    /\ pc' = [pc EXCEPT ![r] = "login"]
    /\ UNCHANGED <<catalogFile, logFile, adminInv, inp, out>>

\* main(): the role choice, the credentials and the branch taken
Login(r, In) ==
    /\ pc[r] = "login"
    /\ \E role_choice \in In.roles, username \in In.usernames,
          password \in In.passwords :
        /\ inp' = [inp EXCEPT ![r] = <<role_choice, username, password>>]
        /\ IF role_choice = <<"1">> /\ authenticate(AdminUser, username, password)
           THEN /\ pc' = [pc EXCEPT ![r] = "admin_menu"]
                /\ out' = [out EXCEPT ![r] = Printed("admin menu")]
           ELSE IF role_choice = <<"2">> /\ authenticate(StaffUser, username, password)
           THEN /\ pc' = [pc EXCEPT ![r] = "staff_menu"]
                /\ out' = [out EXCEPT ![r] = Printed("staff menu")]
           ELSE /\ pc' = [pc EXCEPT ![r] = "exit"]
                /\ out' = [out EXCEPT ![r] = Printed("Authentication Failed!")]
    /\ UNCHANGED <<catalogFile, logFile, adminInv, staffInv>>

\* The effect of an admin handler that left res after reading args
AdminDone(r, choice, args, res) ==
    /\ adminInv' = [adminInv EXCEPT ![r] = res.inventory]
    /\ catalogFile' = IF res.save THEN save_inventory(res.inventory) ELSE catalogFile
    /\ inp' = [inp EXCEPT ![r] = <<choice>> \o SubSeq(args, 1, res.read)]
    /\ out' = [out EXCEPT ![r] = Printed(res.msg)]
    /\ UNCHANGED <<logFile, pc, staffInv>>

\* The lines a prompt may be answered with: none is drawn for a prompt the
\* handler does not reach (it read fewer than nth lines).
Answers(alphabet, read, nth) == IF read < nth THEN {<<>>} ELSE alphabet

\* choice "1": admin.add_product()
AdminAdd(r, In) ==
    /\ pc[r] = "admin_menu"
    /\ \E pidIn \in In.pids :
       \E nameIn \in Answers(In.names,
                add_product(adminInv[r], pidIn, <<>>, <<>>, <<>>).read, 2) :
       \E qtyIn \in Answers(In.quantities,
                add_product(adminInv[r], pidIn, <<>>, <<>>, <<>>).read, 3) :
       \E priceIn \in Answers(In.prices,
                add_product(adminInv[r], pidIn, nameIn, qtyIn, <<>>).read, 4) :
        AdminDone(r, <<"1">>, <<pidIn, nameIn, qtyIn, priceIn>>,
                  add_product(adminInv[r], pidIn, nameIn, qtyIn, priceIn))

\* choice "2": admin.view_products()
AdminView(r) ==
    /\ pc[r] = "admin_menu"
    /\ inp' = [inp EXCEPT ![r] = <<<<"2">>>>]
    /\ out' = [out EXCEPT ![r] = admin_view_products(adminInv[r])]
    /\ UNCHANGED <<catalogFile, logFile, pc, adminInv, staffInv>>

\* choice "3": admin.update_stock()
AdminUpdate(r, In) ==
    /\ pc[r] = "admin_menu"
    /\ \E pidIn \in In.pids :
       \E qtyIn \in Answers(In.quantities,
                admin_update_stock(adminInv[r], pidIn, <<>>).read, 2) :
        AdminDone(r, <<"3">>, <<pidIn, qtyIn>>,
                  admin_update_stock(adminInv[r], pidIn, qtyIn))

\* choice "4": admin.delete_product()
AdminDelete(r, In) ==
    /\ pc[r] = "admin_menu"
    /\ \E pidIn \in In.pids :
        AdminDone(r, <<"4">>, <<pidIn>>, delete_product(adminInv[r], pidIn))

\* choice "5": admin.view_staff_logs()
AdminLogs(r) ==
    /\ pc[r] = "admin_menu"
    /\ inp' = [inp EXCEPT ![r] = <<<<"5">>>>]
    /\ out' = [out EXCEPT ![r] = view_staff_logs(logFile)]
    /\ UNCHANGED <<catalogFile, logFile, pc, adminInv, staffInv>>

\* choice "6": break
AdminExit(r) ==
    /\ pc[r] = "admin_menu"
    /\ pc' = [pc EXCEPT ![r] = "exit"]
    /\ inp' = [inp EXCEPT ![r] = <<<<"6">>>>]
    /\ out' = [out EXCEPT ![r] = Printed("")]
    /\ UNCHANGED <<catalogFile, logFile, adminInv, staffInv>>

\* any other choice in the admin loop
AdminInvalid(r, In) ==
    /\ pc[r] = "admin_menu"
    /\ \E choice \in In.adminChoices :
        /\ choice \notin {<<"1">>, <<"2">>, <<"3">>, <<"4">>, <<"5">>, <<"6">>}
        /\ inp' = [inp EXCEPT ![r] = <<choice>>]
    /\ out' = [out EXCEPT ![r] = Printed("Invalid choice!")]
    /\ UNCHANGED <<catalogFile, logFile, pc, adminInv, staffInv>>

\* choice "1" of the staff loop: staff.view_products()
StaffView(r) ==
    /\ pc[r] = "staff_menu"
    /\ inp' = [inp EXCEPT ![r] = <<<<"1">>>>]
    /\ out' = [out EXCEPT ![r] = staff_view_products(staffInv[r])]
    /\ UNCHANGED <<catalogFile, logFile, pc, adminInv, staffInv>>

\* choice "2" of the staff loop: staff.update_stock()
StaffUpdate(r, In) ==
    /\ pc[r] = "staff_menu"
    /\ \E pidIn \in In.pids :
       \E qtyIn \in Answers(In.quantities,
                staff_update_stock(staffInv[r], pidIn, <<>>).read, 2) :
       \E now \in IF staff_update_stock(staffInv[r], pidIn, qtyIn).log
                  THEN In.times ELSE {1} :
        LET res == staff_update_stock(staffInv[r], pidIn, qtyIn)
        IN  /\ res.log => Len(logFile.text) < In.maxLog
            /\ staffInv' = [staffInv EXCEPT ![r] = res.inventory]
            /\ catalogFile' =
                  IF res.save THEN save_inventory(res.inventory) ELSE catalogFile
            /\ logFile' =
                  IF res.log
                  THEN log_staff_action(logFile, now,
                          StaffAction(Strip(pidIn), IntParse(qtyIn).val))
                  ELSE logFile
            /\ inp' = [inp EXCEPT ![r] = <<<<"2">>>> \o SubSeq(<<pidIn, qtyIn>>, 1, res.read)]
            /\ out' = [out EXCEPT ![r] = Printed(res.msg)]
    /\ UNCHANGED <<pc, adminInv>>

\* choice "3" of the staff loop: break
StaffExit(r) ==
    /\ pc[r] = "staff_menu"
    /\ pc' = [pc EXCEPT ![r] = "exit"]
    /\ inp' = [inp EXCEPT ![r] = <<<<"3">>>>]
    /\ out' = [out EXCEPT ![r] = Printed("")]
    /\ UNCHANGED <<catalogFile, logFile, adminInv, staffInv>>

\* any other choice in the staff loop
StaffInvalid(r, In) ==
    /\ pc[r] = "staff_menu"
    /\ \E choice \in In.staffChoices :
        /\ choice \notin {<<"1">>, <<"2">>, <<"3">>}
        /\ inp' = [inp EXCEPT ![r] = <<choice>>]
    /\ out' = [out EXCEPT ![r] = Printed("Invalid choice!")]
    /\ UNCHANGED <<catalogFile, logFile, pc, adminInv, staffInv>>

\* One step of run r of main()
Step(r, In) ==
    \/ NewAdmin(r)
    \/ NewStaff(r)
    \/ Login(r, In)
    \/ AdminAdd(r, In)
    \/ AdminView(r)
    \/ AdminUpdate(r, In)
    \/ AdminDelete(r, In)
    \/ AdminLogs(r)
    \/ AdminExit(r)
    \/ AdminInvalid(r, In)
    \/ StaffView(r)
    \/ StaffUpdate(r, In)
    \/ StaffExit(r)
    \/ StaffInvalid(r, In)

\* One run of main(), no other writer of the files
Next == Step(1, FullInputs)

Spec == Init /\ [][Next]_vars

\* Two runs of main() on the same two files, their steps interleaved.  Each
\* terminal types from a smaller alphabet, and names a product of its own:
\* run 1 works on P1, run 2 on P2.
ConcInputs(r) ==
    [roles |-> {<<"1">>, <<"2">>},
     usernames |-> {AdminUser.username, StaffUser.username},
     passwords |-> {AdminUser.password, StaffUser.password},
     adminChoices |-> {<<"7">>},
     staffChoices |-> {<<"4">>},
     pids |-> {IF r = 1 THEN P1 ELSE P2},
     names |-> {Pen},
     quantities |-> {<<"4">>},
     prices |-> {<<"2", ".", "5">>},
     times |-> {1},
     maxLog |-> MaxConcLog]

NextConc == \E r \in Runs : Step(r, ConcInputs(r))

\* Both runs start with the two products on file and no audit log.
InitConc ==
    /\ catalogFile =
          save_inventory(<<Item(P1, Pen, 5, Fin(25, 1)), Item(P2, Pen, 5, Fin(25, 1))>>)
    /\ logFile = NoFile
    /\ pc = [r \in Runs |-> "start"]
    /\ adminInv = [r \in Runs |-> EmptyDict]
    /\ staffInv = [r \in Runs |-> EmptyDict]
    /\ inp = [r \in Runs |-> <<>>]
    /\ out = [r \in Runs |-> Printed("")]

SpecConc == InitConc /\ [][NextConc]_vars

\* ------------------------------------------------------------------- claims
\* Under Spec only run 1 moves.  A step of it from the admin or staff loop is
\* the handler named by the menu choice inp'[1][1], run on the lines that
\* follow the choice in inp'[1].

\* x >= 0 for a float x
FloatGe0(x) ==
    CASE x.k = "nan" -> FALSE
      [] x.k = "inf" -> x.m > 0
      [] OTHER -> x.m >= 0

AdminStep(choice) == pc[1] = "admin_menu" /\ inp'[1][1] = choice
StaffStep(choice) == pc[1] = "staff_menu" /\ inp'[1][1] = choice

\* The inputs of an addProduct are acceptable as the contract lists them.
AddAcceptable(inventory, a) ==
    /\ Strip(a[2]) # <<>>
    /\ ~Has(inventory, Strip(a[2]))
    /\ Len(a) >= 4 /\ IntParse(a[4]).ok
    /\ Len(a) >= 5 /\ FloatParse(a[5]).ok
    /\ IntParse(a[4]).val >= 0
    /\ FloatGe0(FloatParse(a[5]).val)

\* d2 is d1 with exactly the entry item added, every other entry as it was.
AddsExactly(d1, d2, item) ==
    /\ Keys(d2) = Keys(d1) \cup {item.pid}
    /\ Len(d2) = Len(d1) + 1
    /\ Get(d2, item.pid) = item
    /\ \A k \in Keys(d1) : Get(d2, k) = Get(d1, k)

AddContract(a) ==
    IF AddAcceptable(adminInv[1], a)
    THEN AddsExactly(adminInv[1], adminInv'[1],
            Item(Strip(a[2]), Strip(a[3]), IntParse(a[4]).val, FloatParse(a[5]).val))
    ELSE adminInv'[1] = adminInv[1] /\ catalogFile' = catalogFile

\* C1: addProduct changes the catalog only when the stripped id is non-empty
\* and new, quantity parses as an integer, price parses as a number and both
\* are >= 0; it then adds exactly that entry; in every other case memory and
\* file are unchanged.
C1_AddProductContract ==
    [][AdminStep(<<"1">>) => AddContract(inp'[1])]_vars

\* The same contract with the price test the code makes, not (price < 0),
\* in place of price >= 0: the two differ on NaN alone.
AddContractAsCoded ==
    [][AdminStep(<<"1">>) =>
        LET a == inp'[1]
            coded == /\ Strip(a[2]) # <<>>
                     /\ ~Has(adminInv[1], Strip(a[2]))
                     /\ Len(a) >= 4 /\ IntParse(a[4]).ok
                     /\ Len(a) >= 5 /\ FloatParse(a[5]).ok
                     /\ IntParse(a[4]).val >= 0
                     /\ ~FloatNeg(FloatParse(a[5]).val)
        IN  IF coded
            THEN AddsExactly(adminInv[1], adminInv'[1],
                    Item(Strip(a[2]), Strip(a[3]), IntParse(a[4]).val,
                         FloatParse(a[5]).val))
            ELSE adminInv'[1] = adminInv[1] /\ catalogFile' = catalogFile]_vars

\* d2 is d1 with only the quantity of id set to q.
SetsOnlyQuantity(d1, d2, id, q) ==
    /\ Len(d2) = Len(d1)
    /\ \A i \in 1..Len(d1) :
        /\ d2[i].pid = d1[i].pid
        /\ d2[i].name = d1[i].name
        /\ d2[i].price = d1[i].price
        /\ d2[i].quantity = IF d1[i].pid = id THEN q ELSE d1[i].quantity

UpdateContract(d1, d2, a) ==
    IF ~Has(d1, Strip(a[2]))
    THEN /\ Len(a) = 2
         /\ out'[1].msg = "Product ID not found!"
         /\ d2 = d1 /\ catalogFile' = catalogFile
    ELSE /\ Len(a) = 3
         /\ IF IntParse(a[3]).ok /\ IntParse(a[3]).val >= 0
            THEN SetsOnlyQuantity(d1, d2, Strip(a[2]), IntParse(a[3]).val)
            ELSE d2 = d1 /\ catalogFile' = catalogFile

\* C2: updateStock, Admin's and Staff's: an id that is no key is reported
\* not found with memory and file unchanged and the quantity prompt never
\* read; an existing id with a parsable quantity >= 0 has only its quantity
\* set; an existing id with a negative or unparsable quantity changes nothing.
C2_UpdateStockContract ==
    [][/\ AdminStep(<<"3">>) => UpdateContract(adminInv[1], adminInv'[1], inp'[1])
       /\ StaffStep(<<"2">>) => UpdateContract(staffInv[1], staffInv'[1], inp'[1])]_vars

\* An admin update has set the quantity of one of two products.
C2_Witness ==
    /\ inp[1] = <<<<"3">>, <<" ", "P", "1", " ">>, <<" ", "4">>>>
    /\ out[1].msg = "Stock Updated!"
    /\ pc[1] = "admin_menu"
    /\ Len(adminInv[1]) = 2
    /\ Get(adminInv[1], P1).quantity = 4
    /\ Get(adminInv[1], P1).name = Pen

\* A staff update has set a quantity.
C2_WitnessStaff ==
    /\ pc[1] = "staff_menu"
    /\ inp[1] = <<<<"2">>, P2, <<"5">>>>
    /\ out[1].msg = "Stock Updated!"
    /\ Get(staffInv[1], P2).quantity = 5

\* C3: deleteProduct of an existing id removes exactly that entry from memory
\* and the file afterwards holds no entry for it; of an id not in the catalog
\* it leaves memory and file unchanged.
C3_DeleteContract ==
    [][AdminStep(<<"4">>) =>
        LET id == Strip(inp'[1][2])
            Other(item) == item.pid # id
        IN  IF Has(adminInv[1], id)
            THEN /\ adminInv'[1] = SelectSeq(adminInv[1], Other)
                 /\ Len(adminInv'[1]) = Len(adminInv[1]) - 1
                 /\ catalogFile'.exists
                 /\ ~Has(load_inventory(catalogFile'), id)
            ELSE adminInv'[1] = adminInv[1] /\ catalogFile' = catalogFile]_vars

\* One of two products has just been deleted and the other is still there.
C3_Witness ==
    /\ pc[1] = "admin_menu"
    /\ inp[1] = <<<<"4">>, <<" ", "P", "1", " ">>>>
    /\ out[1].msg = "Product Deleted Successfully!"
    /\ Keys(adminInv[1]) = {P2}
    /\ Keys(load_inventory(catalogFile)) = {P2}

\* The text names the product id and ends with the numeral of the quantity.
NamesIdAndQuantity(text, id, q) ==
    /\ \E i \in 1..Len(text) :
          i + Len(id) - 1 <= Len(text) /\ SubSeq(text, i, i + Len(id) - 1) = id
    /\ \E j \in 1..Len(text) :
          LET n == IntParse(SubSeq(text, j, Len(text)))
          IN  n.ok /\ n.val = q

StaffUpdateSucceeds ==
    /\ StaffStep(<<"2">>)
    /\ Has(staffInv[1], Strip(inp'[1][2]))
    /\ IntParse(inp'[1][3]).ok
    /\ IntParse(inp'[1][3]).val >= 0

\* C4: the audit log is append-only and grows by exactly one line, naming the
\* product id and the new quantity, exactly when a Staff updateStock succeeds;
\* every other step (a failed Staff updateStock, Staff viewProducts, every
\* Admin operation) leaves it unchanged.
C4_AuditLog ==
    [][IF StaffUpdateSucceeds
       THEN /\ logFile'.exists
            /\ Len(logFile'.text) = Len(logFile.text) + 1
            /\ SubSeq(logFile'.text, 1, Len(logFile.text)) = logFile.text
            /\ NamesIdAndQuantity(logFile'.text[Len(logFile'.text)].action,
                    Strip(inp'[1][2]), IntParse(inp'[1][3]).val)
            /\ Get(staffInv'[1], Strip(inp'[1][2])).quantity = IntParse(inp'[1][3]).val
       ELSE logFile' = logFile]_vars

\* A staff update has just appended a line to a log that already held one.
C4_Witness ==
    /\ pc[1] = "staff_menu"
    /\ out[1].msg = "Stock Updated!"
    /\ inp[1] = <<<<"2">>, <<" ", "P", "1", " ">>, <<" ", "4">>>>
    /\ Len(logFile.text) = 2
    /\ logFile.text[1].action = StaffAction(P2, 5)
    /\ logFile.text[2].action = StaffAction(P1, 4)

ValidProduct(item) ==
    /\ item.pid # <<>>
    /\ item.quantity >= 0
    /\ FloatGe0(item.price)

ValidCatalog(d) ==
    /\ \A i \in 1..Len(d) : ValidProduct(d[i])
    /\ \A i, j \in 1..Len(d) : d[i].pid = d[j].pid => i = j

\* C5: starting from an absent file or a valid catalog, after any sequence of
\* operations every product in memory and in the file has a non-empty id,
\* quantity >= 0 and price >= 0, and each id occurs once.
C5_CatalogInvariant ==
    /\ ValidCatalog(adminInv[1])
    /\ ValidCatalog(staffInv[1])
    /\ ValidCatalog(load_inventory(catalogFile))

\* The same with NaN let through as a price, which is all the code lets in.
CatalogInvariantSaveNaN ==
    LET Ok(d) ==
            /\ \A i \in 1..Len(d) :
                /\ d[i].pid # <<>>
                /\ d[i].quantity >= 0
                /\ ~FloatNeg(d[i].price)
            /\ \A i, j \in 1..Len(d) : d[i].pid = d[j].pid => i = j
    IN  Ok(adminInv[1]) /\ Ok(staffInv[1]) /\ Ok(load_inventory(catalogFile))

\* The inventory of the role object the menu loop works on
LiveInventory(r) ==
    IF pc[r] = "staff_menu" THEN staffInv[r] ELSE adminInv[r]

SuccessMessages ==
    {"Product Added Successfully!", "Product Deleted Successfully!", "Stock Updated!"}

InMenu(r) == pc[r] \in {"admin_menu", "staff_menu"}

\* C6: with no other writer, every successful add, delete or update-stock
\* writes the whole in-memory catalog to the file and every failed or
\* read-only operation writes nothing; so whenever the menu waits for a
\* command the persisted catalog equals the in-memory catalog of the
\* authenticated role object, an absent file counting as the empty catalog.
C6_PersistedEqualsMemory ==
    [][LET persisted == load_inventory(catalogFile')
       IN  /\ InMenu(1)' => persisted = LiveInventory(1)'
           /\ InMenu(1) =>
                IF out'[1].msg \in SuccessMessages
                THEN catalogFile'.exists /\ persisted = LiveInventory(1)'
                ELSE catalogFile' = catalogFile]_vars

\* The menu waits after an add that wrote a second product to the file.
C6_Witness ==
    /\ pc[1] = "admin_menu"
    /\ out[1].msg = "Product Added Successfully!"
    /\ catalogFile.exists
    /\ Len(catalogFile.text) = 2
    /\ Len(adminInv[1]) = 2

AdminLogin == <<<<"1">>, AdminUser.username, AdminUser.password>>
StaffLogin == <<<<"2">>, StaffUser.username, StaffUser.password>>

\* What only addProduct, deleteProduct and viewAuditLog print
AdminOnlyMessages ==
    {"Product ID cannot be empty!", "Product ID already exists!",
     "Quantity must be integer and price must be number!",
     "Quantity and Price cannot be negative!", "Product Added Successfully!",
     "Product Deleted Successfully!", "--- Staff Activity Log ---",
     "No staff activity found."}

\* What viewProducts and updateStock of Staff, and the staff loop, print
StaffMessages ==
    {"Inventory is empty!", "--- Product List ---", "Product ID not found!",
     "Quantity must be a valid number!", "Quantity cannot be negative!",
     "Stock Updated!", "Invalid choice!", ""}

\* C7: the admin loop is entered only with role selection 1 and exactly the
\* admin pair, and only there do addProduct, deleteProduct and viewAuditLog
\* run; with selection 2 and the staff pair only viewProducts and updateStock
\* run, so the set of product ids never changes in a staff session; any other
\* combination runs no operation, writes neither file, prints one failure
\* message and ends the run with no retry.
C7_RoleGate ==
    [][/\ (pc'[1] = "admin_menu" /\ pc[1] # "admin_menu")
            => (pc[1] = "login" /\ inp'[1] = AdminLogin)
       /\ (pc'[1] = "staff_menu" /\ pc[1] # "staff_menu")
            => (pc[1] = "login" /\ inp'[1] = StaffLogin)
       /\ (pc[1] = "login" /\ inp'[1] \notin {AdminLogin, StaffLogin})
            => /\ pc'[1] = "exit"
               /\ out'[1].msg = "Authentication Failed!"
       /\ out'[1].msg \in AdminOnlyMessages => pc[1] = "admin_menu"
       /\ pc[1] = "staff_menu"
            => /\ out'[1].msg \in StaffMessages
               /\ Keys(staffInv'[1]) = Keys(staffInv[1])
               /\ Keys(load_inventory(catalogFile')) = Keys(load_inventory(catalogFile))
       /\ (catalogFile' # catalogFile \/ logFile' # logFile) => InMenu(1)
       /\ pc[1] # "exit"]_vars

\* The run has ended on the failure message after role selection 1 was
\* answered with the staff pair.
C7_Witness ==
    /\ pc[1] = "exit"
    /\ out[1].msg = "Authentication Failed!"
    /\ inp[1] = <<<<"1">>, StaffUser.username, StaffUser.password>>

\* v = q * p
IsProduct(v, q, p) ==
    CASE p.k = "nan" -> v.k = "nan"
      [] p.k = "inf" -> IF q = 0 THEN v.k = "nan" ELSE v.k = "inf"
      [] OTHER -> v.k = "fin" /\ v.m * Pow10(p.e) = q * p.m * Pow10(v.e)

RECURSIVE MaxExp(_)
MaxExp(rows) ==
    IF rows = <<>> THEN 0
    ELSE LET m == MaxExp(Tail(rows))
         IN  IF Head(rows).value.e > m THEN Head(rows).value.e ELSE m

RECURSIVE ScaledSum(_, _)
ScaledSum(rows, e) ==
    IF rows = <<>> THEN 0
    ELSE Head(rows).value.m * Pow10(e - Head(rows).value.e) + ScaledSum(Tail(rows), e)

\* total = the sum of the rows' values
IsSum(total, rows) ==
    IF \E i \in 1..Len(rows) : rows[i].value.k # "fin" THEN total.k # "fin"
    ELSE /\ total.k = "fin"
         /\ LET e == IF MaxExp(rows) > total.e THEN MaxExp(rows) ELSE total.e
            IN  total.m * Pow10(e - total.e) = ScaledSum(rows, e)

\* The listing o is that of the catalog d.
ListsCatalog(o, d) ==
    /\ o.msg = "Total Inventory Value"
    /\ Len(o.rows) = Len(d)
    /\ \A i \in 1..Len(d) :
        /\ o.rows[i].pid = d[i].pid
        /\ o.rows[i].name = d[i].name
        /\ o.rows[i].quantity = d[i].quantity
        /\ o.rows[i].price = d[i].price
        /\ IsProduct(o.rows[i].value, d[i].quantity, d[i].price)
        /\ o.rows[i].low = (d[i].quantity < 5)
    /\ IsSum(o.total, o.rows)

\* C8: Admin viewProducts on a non-empty catalog reports for every entry
\* value = quantity * price, a total equal to the sum of those values, and the
\* low-stock flag for exactly the entries with quantity < 5, all of the
\* catalog as the operations before it left it; it never changes the catalog.
C8_AdminView ==
    [][AdminStep(<<"2">>) =>
        /\ adminInv'[1] = adminInv[1]
        /\ catalogFile' = catalogFile
        /\ adminInv[1] # EmptyDict => ListsCatalog(out'[1], adminInv[1])]_vars

\* A listing of two products added with quantity 5 and price 2.5, the second
\* since updated to 4: it alone is flagged, and the total is 12.5 + 10.
C8_Witness ==
    /\ pc[1] = "admin_menu"
    /\ inp[1] = <<<<"2">>>>
    /\ Len(out[1].rows) = 2
    /\ out[1].rows[1].pid = P2 /\ out[1].rows[1].quantity = 5
    /\ ~out[1].rows[1].low
    /\ out[1].rows[1].value = Fin(125, 1)
    /\ out[1].rows[2].pid = P1 /\ out[1].rows[2].quantity = 4
    /\ out[1].rows[2].low
    /\ out[1].total = Fin(225, 1)

AddSucceeds == AdminStep(<<"1">>) /\ out'[1].msg = "Product Added Successfully!"

\* C9: no entry created by addProduct has an empty name.
C9_NameNonEmpty ==
    [][AddSucceeds => Get(adminInv'[1], Strip(inp'[1][2])).name # <<>>]_vars

\* t is s without its leading and trailing whitespace.
IsStripped(t, s) ==
    /\ t # <<>> => (t[1] \notin WS /\ t[Len(t)] \notin WS)
    /\ \E i \in 1..(Len(s) + 1) :
        /\ i + Len(t) - 1 <= Len(s)
        /\ t = SubSeq(s, i, i + Len(t) - 1)
        /\ \A j \in 1..Len(s) : (j < i \/ j >= i + Len(t)) => s[j] \in WS

\* C9 as amended: the name of an entry created by addProduct is the entered
\* name without its leading and trailing whitespace, which may be empty.
C9_NameIsStrippedInput ==
    [][AddSucceeds =>
        IsStripped(Get(adminInv'[1], Strip(inp'[1][2])).name, inp'[1][3])]_vars

\* An add has just created an entry with the empty name.
C9_Witness ==
    /\ pc[1] = "admin_menu"
    /\ out[1].msg = "Product Added Successfully!"
    /\ inp[1][3] = <<>>
    /\ Get(adminInv[1], Strip(inp[1][2])).name = <<>>

\* The catalog a file holds, an absent file holding the empty one
FileCatalog(f) == IF f.exists THEN JsonLoad(f.text) ELSE EmptyDict

\* C10: two runs on the same file do not coordinate: each loads the catalog
\* once, when its role objects are built, and never again, and each
\* successful mutation overwrites the whole file from that run's own memory;
\* so a mutation one run persisted can be gone from the file after a later
\* successful mutation by the other run (C10_LostUpdate is such a state).
C10_NoCoordination ==
    [][/\ \A r \in Runs :
            /\ adminInv'[r] # adminInv[r] =>
                \/ pc[r] = "start" /\ adminInv'[r] = FileCatalog(catalogFile)
                \/ /\ pc[r] = "admin_menu"
                   /\ out'[r].msg \in SuccessMessages
                   /\ FileCatalog(catalogFile') = adminInv'[r]
            /\ staffInv'[r] # staffInv[r] =>
                \/ pc[r] = "admin_built" /\ staffInv'[r] = FileCatalog(catalogFile)
                \/ /\ pc[r] = "staff_menu"
                   /\ out'[r].msg \in SuccessMessages
                   /\ FileCatalog(catalogFile') = staffInv'[r]
            /\ (pc[r] = "start" /\ pc'[r] # "start") =>
                    adminInv'[r] = FileCatalog(catalogFile)
            /\ (pc[r] = "admin_built" /\ pc'[r] # "admin_built") =>
                    staffInv'[r] = FileCatalog(catalogFile)
       /\ catalogFile' # catalogFile =>
            \E r \in Runs :
                /\ InMenu(r)
                /\ out'[r].msg \in SuccessMessages
                /\ FileCatalog(catalogFile') = LiveInventory(r)']_vars

\* Run r's last step was a successful mutation of a product, run w's last
\* step a successful mutation of another product; the file is w's memory and
\* no longer agrees with r's memory on the product r changed.
C10_LostUpdate ==
    \E r, w \in Runs :
        /\ r # w
        /\ InMenu(r) /\ out[r].msg \in SuccessMessages
        /\ InMenu(w) /\ out[w].msg \in SuccessMessages
        /\ Strip(inp[w][2]) # Strip(inp[r][2])
        /\ FileCatalog(catalogFile) = LiveInventory(w)
        /\ LET id == Strip(inp[r][2])
               f == FileCatalog(catalogFile)
           IN  /\ Has(LiveInventory(r), id)
               /\ Has(f, id)
               /\ Get(f, id) # Get(LiveInventory(r), id)

====
